---- MODULE Spec2Model ----
(***************************************************************************)
(* Model of dashboard.py: the five pillar scorers, combine_scores,         *)
(* build_investor_playbook, and main's fetch / parse / score sequence.     *)
(*                                                                         *)
(* Encoding of Python values                                               *)
(*   None            the empty sequence <<>>; a present value v is <<v>>    *)
(*   a number        an integer, in the unit stated where it is drawn      *)
(*   a pillar score  an integer count of quarters (score * 4): every       *)
(*                   pillar score is a sum of 3, 2, 1, 0.5 and 0.25, all   *)
(*                   exact in binary64, so this encoding loses nothing     *)
(*   a float that is the result of /, of * by a decimal literal or of a    *)
(*   rounded +       a binary64 value [neg, mag], mag a fixed-point        *)
(*                   magnitude in limbs; every operation rounds to 53      *)
(*                   significant bits, ties to even, as CPython does       *)
(*   a str reading   the pair <<characters, "str">>                        *)
(*   a label         a sequence of text fragments (joined by " ")          *)
(***************************************************************************)
EXTENDS Integers, Sequences, FiniteSets, TLC

\* Optional values: None is the empty sequence, a present value v is <<v>>.
None == <<>>
Some(v) == <<v>>
Val(o) == o[1]

\* Python truthiness of an optional number: None and 0 are both false
Truthy(o) == o # None /\ Val(o) # 0

\* Python truthiness of an optional dict: None and {} are both false
TruthyDict(o) == o # None /\ DOMAIN Val(o) # {}

\* the outcome of a call: a returned (score, label) pair, or a raised exception
Return(score, label) == [kind |-> "return", score |-> score, label |-> label]
Raise(e) == [kind |-> "raise", exc |-> e]
Value(v) == [kind |-> "value", v |-> v]

(***************************************************************************)
(* binary64 arithmetic.  A magnitude is a little-endian sequence of NLimbs *)
(* limbs in base LimbBase; limb FracLimbs + 1 is the units limb, so a      *)
(* magnitude m stands for m / LimbBase^FracLimbs.                          *)
(***************************************************************************)
LimbBits == 12
LimbBase == 2 ^ LimbBits
FracLimbs == 7
NLimbs == 9
MantBits == 53

MagZero == [i \in 1..NLimbs |-> 0]

MagOfInt(n) ==
    [i \in 1..NLimbs |->
        IF i = FracLimbs + 1 THEN n % LimbBase
        ELSE IF i = FracLimbs + 2 THEN n \div LimbBase
        ELSE 0]

RECURSIVE AddFrom(_, _, _, _)
AddFrom(a, b, i, c) ==
    IF i > NLimbs THEN <<>>
    ELSE LET s == a[i] + b[i] + c
         IN  <<s % LimbBase>> \o AddFrom(a, b, i + 1, s \div LimbBase)

MagAdd(a, b) == AddFrom(a, b, 1, 0)

RECURSIVE SubFrom(_, _, _, _)
SubFrom(a, b, i, c) ==
    IF i > NLimbs THEN <<>>
    ELSE LET s == a[i] - b[i] - c
         IN  IF s < 0 THEN <<s + LimbBase>> \o SubFrom(a, b, i + 1, 1)
             ELSE <<s>> \o SubFrom(a, b, i + 1, 0)

\* a - b, for a >= b
MagSub(a, b) == SubFrom(a, b, 1, 0)

RECURSIVE CmpFrom(_, _, _)
CmpFrom(a, b, i) ==
    IF i = 0 THEN 0
    ELSE IF a[i] < b[i] THEN -1
    ELSE IF a[i] > b[i] THEN 1
    ELSE CmpFrom(a, b, i - 1)

\* -1, 0, 1 as a < b, a = b, a > b
MagCmp(a, b) == CmpFrom(a, b, NLimbs)

RECURSIVE MulFrom(_, _, _, _)
MulFrom(a, k, i, c) ==
    IF i > NLimbs THEN <<>>
    ELSE LET s == a[i] * k + c
         IN  <<s % LimbBase>> \o MulFrom(a, k, i + 1, s \div LimbBase)

\* a * k for a small natural k
MagMulSmall(a, k) == MulFrom(a, k, 1, 0)

RECURSIVE DivFrom(_, _, _, _)
DivFrom(a, n, i, r) ==
    IF i = 0 THEN [q |-> <<>>, r |-> r]
    ELSE LET cur  == r * LimbBase + a[i]
             rest == DivFrom(a, n, i - 1, cur % n)
         IN  [q |-> Append(rest.q, cur \div n), r |-> rest.r]

\* floor(a / n) and the remainder, for a natural 0 < n < 2^19
MagDivSmall(a, n) == DivFrom(a, n, NLimbs, 0)

RECURSIVE SmallBitLen(_)
SmallBitLen(x) == IF x = 0 THEN 0 ELSE 1 + SmallBitLen(x \div 2)

RECURSIVE TopLimb(_, _)
TopLimb(a, i) == IF i = 0 THEN 0 ELSE IF a[i] # 0 THEN i ELSE TopLimb(a, i - 1)

\* number of significant bits of the magnitude, counted from its lowest bit
MagBitLen(a) ==
    LET t == TopLimb(a, NLimbs)
    IN  IF t = 0 THEN 0 ELSE (t - 1) * LimbBits + SmallBitLen(a[t])

MagBit(a, n) == (a[(n \div LimbBits) + 1] \div (2 ^ (n % LimbBits))) % 2

\* some bit below position n is set
MagAnyBelow(a, n) ==
    LET j == (n \div LimbBits) + 1
    IN  \/ \E i \in 1..(j - 1) : a[i] # 0
        \/ a[j] % (2 ^ (n % LimbBits)) # 0

MagClearBelow(a, n) ==
    LET j == (n \div LimbBits) + 1
    IN  [i \in 1..NLimbs |->
            IF i < j THEN 0
            ELSE IF i = j THEN a[i] - (a[i] % (2 ^ (n % LimbBits)))
            ELSE a[i]]

MagPow2(n) ==
    [i \in 1..NLimbs |-> IF i = (n \div LimbBits) + 1 THEN 2 ^ (n % LimbBits) ELSE 0]

\* round to nearest, ties to even, at MantBits significant bits; sticky says
\* that the exact value lies strictly above the magnitude a
MagRound(a, sticky) ==
    LET c == MagBitLen(a) - MantBits
    IN  IF c <= 0 THEN a
        ELSE LET guard == MagBit(a, c - 1) = 1
                 rest  == sticky \/ (c >= 2 /\ MagAnyBelow(a, c - 1))
                 odd   == MagBit(a, c) = 1
                 trunc == MagClearBelow(a, c)
             IN  IF guard /\ (rest \/ odd) THEN MagAdd(trunc, MagPow2(c)) ELSE trunc

Flt(neg, mag) == [neg |-> neg /\ mag # MagZero, mag |-> mag]

FltZero == Flt(FALSE, MagZero)

\* float(n) for an integer n
FltOfInt(n) == IF n < 0 THEN Flt(TRUE, MagOfInt(-n)) ELSE Flt(FALSE, MagOfInt(n))

\* x / n for a float x and a positive integer n
FltDivInt(x, n) ==
    LET d == MagDivSmall(x.mag, n)
    IN  Flt(x.neg, MagRound(d.q, d.r # 0))

\* the binary64 value of p / q for integers p, q > 0; also the value of the
\* decimal literal p/q (a literal is converted by one correct rounding)
FltRatio(p, q) == FltDivInt(FltOfInt(p), q)

\* x + y
FltAdd(x, y) ==
    IF x.neg = y.neg THEN Flt(x.neg, MagRound(MagAdd(x.mag, y.mag), FALSE))
    ELSE IF MagCmp(x.mag, y.mag) >= 0
         THEN Flt(x.neg, MagRound(MagSub(x.mag, y.mag), FALSE))
         ELSE Flt(y.neg, MagRound(MagSub(y.mag, x.mag), FALSE))

FltNeg(x) == Flt(~x.neg, x.mag)

\* x - y
FltSub(x, y) == FltAdd(x, FltNeg(y))

\* w * (k4 / 4): a float times a number given in quarters
FltMulQuarters(w, k4) ==
    LET k == IF k4 < 0 THEN -k4 ELSE k4
        d == MagDivSmall(MagMulSmall(w.mag, k), 4)
    IN  Flt(w.neg # (k4 < 0), MagRound(d.q, d.r # 0))

\* -1, 0, 1 as x < y, x = y, x > y
FltCmp(x, y) ==
    IF x.neg /\ ~y.neg THEN -1
    ELSE IF ~x.neg /\ y.neg THEN 1
    ELSE IF x.neg THEN MagCmp(y.mag, x.mag)
    ELSE MagCmp(x.mag, y.mag)

FltLt(x, y) == FltCmp(x, y) < 0
FltLe(x, y) == FltCmp(x, y) <= 0
FltGt(x, y) == FltCmp(x, y) > 0
FltGe(x, y) == FltCmp(x, y) >= 0


(***************************************************************************)
(* Python operators on optional numbers                                    *)
(***************************************************************************)

\* a / b for optional integers: TypeError on None, ZeroDivisionError on b = 0
PyDiv(a, b) ==
    IF a = None \/ b = None THEN Raise("TypeError")
    ELSE IF Val(b) = 0 THEN Raise("ZeroDivisionError")
    ELSE LET p == IF Val(a) < 0 THEN -Val(a) ELSE Val(a)
             q == IF Val(b) < 0 THEN -Val(b) ELSE Val(b)
             r == FltRatio(p, q)
         IN  Value(Flt((Val(a) < 0) # (Val(b) < 0), r.mag))

\* a str reading: its characters, tagged; Val gives the characters
Str(chars) == <<chars, "str">>
IsStr(o) == Len(o) = 2

Digits == <<"0", "1", "2", "3", "4", "5", "6", "7", "8", "9">>
IsDigit(c) == \E d \in DOMAIN Digits : Digits[d] = c
DigitValue(c) == (CHOOSE d \in DOMAIN Digits : Digits[d] = c) - 1

\* the number a sequence of decimal digits writes
RECURSIVE DigitsValue(_)
DigitsValue(chars) ==
    IF chars = <<>> THEN 0
    ELSE 10 * DigitsValue(SubSeq(chars, 1, Len(chars) - 1)) + DigitValue(chars[Len(chars)])

\* int(v): TypeError on None; a str is parsed as decimal digits, ValueError
\* when it is not a number; an int is returned as it is
PyInt(v) ==
    IF v = None THEN Raise("TypeError")
    ELSE IF IsStr(v)
    THEN IF Val(v) # <<>> /\ \A i \in DOMAIN Val(v) : IsDigit(Val(v)[i])
         THEN Value(DigitsValue(Val(v)))
         ELSE Raise("ValueError")
    ELSE Value(Val(v))

(***************************************************************************)
(* SCORING LOGIC                                                           *)
(***************************************************************************)

\* datetime.now(timezone.utc) is an integer count of ticks, TicksPerDay to a
\* day, counted from LAST_HALVING_DATE (2024-04-20 00:00 UTC), negative
\* before it.
TicksPerDay == 2

\* mutant: the time since the halving is rounded up to whole days
DaysSinceHalving_rounded(now) == (now + TicksPerDay - 1) \div TicksPerDay

\* (now - LAST_HALVING_DATE).days: timedelta.days is the floor of the
\* difference in days
DaysSinceHalving(now) == now \div TicksPerDay

\* the literal n / d as a float, n an integer, d > 0
Lit(n, d) == IF n < 0 THEN FltNeg(FltRatio(-n, d)) ELSE FltRatio(n, d)

\* mutant: the bonus is a whole point instead of half a point
HalvingAdjustment_whole(now) ==
    LET days_since_halving == DaysSinceHalving(now)
    IN  IF days_since_halving < 0 THEN 4
        ELSE IF 0 <= days_since_halving /\ days_since_halving <= 270 THEN 4
        ELSE 0

\* the halving adjustment of score_cycle, in quarters
HalvingAdjustment(now) ==
    LET days_since_halving == DaysSinceHalving(now)
    IN  IF days_since_halving < 0 THEN 2
        ELSE IF 0 <= days_since_halving /\ days_since_halving <= 270 THEN 2
        ELSE 0

\* base score (in quarters) and label from pct_from_ath
CycleBase(pct_from_ath) ==
    IF FltLe(pct_from_ath, Lit(-5, 10))
    THEN <<12, <<"Deep Value / Early Cycle">> >>
    ELSE IF FltLt(Lit(-5, 10), pct_from_ath) /\ FltLe(pct_from_ath, Lit(-2, 10))
    THEN <<8, <<"Early / Mid Bull">> >>
    ELSE IF FltLt(Lit(-2, 10), pct_from_ath) /\ FltLe(pct_from_ath, Lit(1, 10))
    THEN <<0, <<"Mid / Late Bull">> >>
    ELSE <<-8, <<"Euphoria / Late Cycle">> >>

\* mutant: only the price is tested before the division
score_cycle_price_only(btc_price, btc_ath, now) ==
    IF ~Truthy(btc_price) THEN Return(0, <<"Unknown">>)
    ELSE LET q == PyDiv(btc_price, btc_ath)
         IN  IF q.kind = "raise" THEN q
             ELSE LET pct_from_ath == FltSub(q.v, FltOfInt(1))
                      b == CycleBase(pct_from_ath)
                  IN  Return(b[1] + HalvingAdjustment(now), b[2])

score_cycle(btc_price, btc_ath, now) ==
    IF ~Truthy(btc_price) \/ ~Truthy(btc_ath) THEN Return(0, <<"Unknown">>)
    ELSE LET q == PyDiv(btc_price, btc_ath)
         IN  IF q.kind = "raise" THEN q
             ELSE LET pct_from_ath == FltSub(q.v, FltOfInt(1))
                      b == CycleBase(pct_from_ath)
                  IN  Return(b[1] + HalvingAdjustment(now), b[2])

\* mutant: the Extreme Fear bracket excludes 25
score_sentiment_lt(fng_value) ==
    IF fng_value = None THEN Return(0, <<"Unknown">>)
    ELSE LET c == PyInt(fng_value)
         IN  IF c.kind = "raise" THEN c
             ELSE LET v == c.v
                  IN  IF v < 25 THEN Return(8, <<"Extreme Fear (Contrarian Bullish)">>)
                      ELSE IF 25 <= v /\ v <= 50 THEN Return(4, <<"Fear / Neutral">>)
                      ELSE IF 50 < v /\ v <= 75 THEN Return(-4, <<"Greed">>)
                      ELSE Return(-8, <<"Extreme Greed (Risky)">>)

score_sentiment(fng_value) ==
    IF fng_value = None THEN Return(0, <<"Unknown">>)
    ELSE LET c == PyInt(fng_value)
         IN  IF c.kind = "raise" THEN c
             ELSE LET v == c.v
                  IN  IF v <= 25 THEN Return(8, <<"Extreme Fear (Contrarian Bullish)">>)
                      ELSE IF 25 < v /\ v <= 50 THEN Return(4, <<"Fear / Neutral">>)
                      ELSE IF 50 < v /\ v <= 75 THEN Return(-4, <<"Greed">>)
                      ELSE Return(-8, <<"Extreme Greed (Risky)">>)

\* the float of an ETH/BTC change reading of k hundredths
RatioFloat(k) == Lit(k, 100)

\* mutant: the ETH/BTC thresholds are inclusive
RotationAdjustment_ge(eth_btc_ratio_change_30d) ==
    IF eth_btc_ratio_change_30d # None
    THEN IF FltGe(RatioFloat(Val(eth_btc_ratio_change_30d)), Lit(1, 10)) THEN 2
         ELSE IF FltLe(RatioFloat(Val(eth_btc_ratio_change_30d)), Lit(-1, 10)) THEN -2
         ELSE 0
    ELSE 0

\* the ETH/BTC adjustment of score_rotation, in quarters
RotationAdjustment(eth_btc_ratio_change_30d) ==
    IF eth_btc_ratio_change_30d # None
    THEN IF FltGt(RatioFloat(Val(eth_btc_ratio_change_30d)), Lit(1, 10)) THEN 2
         ELSE IF FltLt(RatioFloat(Val(eth_btc_ratio_change_30d)), Lit(-1, 10)) THEN -2
         ELSE 0
    ELSE 0

score_rotation(btc_dominance, eth_btc_ratio_change_30d) ==
    IF btc_dominance = None THEN Return(0, <<"Unknown">>)
    ELSE LET dom == Val(btc_dominance)
             b == IF dom >= 55
                  THEN <<-4, <<"BTC Dominant - Altcoins face headwind">> >>
                  ELSE IF 45 <= dom /\ dom < 55
                  THEN <<0, <<"No clear Altseason - mixed rotation">> >>
                  ELSE <<4, <<"Altseason Zone - higher altcoin beta">> >>
         IN  Return(b[1] + RotationAdjustment(eth_btc_ratio_change_30d), b[2])

\* max(-3, min(3, score)), in quarters
Clamp(score) ==
    LET m == IF score < 12 THEN score ELSE 12
    IN  IF m > -12 THEN m ELSE -12


\* d.get(k, default) for a dict d
DictGet(d, k, default) == IF k \in DOMAIN d THEN d[k] ELSE default

\* mutant: the low-OI bracket is below 0.02 instead of below 0.03
OiComponent_low(oi_ratio) ==
    IF FltLt(oi_ratio, Lit(2, 100))
    THEN <<4, <<"Low OI relative to market cap - less crowded leverage.">> >>
    ELSE IF FltLe(Lit(2, 100), oi_ratio) /\ FltLe(oi_ratio, Lit(7, 100))
    THEN <<0, <<"Moderate OI - normal leverage environment.">> >>
    ELSE <<-4, <<"High OI - crowded positions, higher liquidation risk.">> >>

\* OI ratio scoring: <<quarters, note>>
OiComponent(oi_ratio) ==
    IF FltLt(oi_ratio, Lit(3, 100))
    THEN <<4, <<"Low OI relative to market cap - less crowded leverage.">> >>
    ELSE IF FltLe(Lit(3, 100), oi_ratio) /\ FltLe(oi_ratio, Lit(7, 100))
    THEN <<0, <<"Moderate OI - normal leverage environment.">> >>
    ELSE <<-4, <<"High OI - crowded positions, higher liquidation risk.">> >>

\* the float of a funding reading of k hundred-thousandths
FundingFloat(k) == Lit(k, 100000)

\* mutant: the crowded-longs threshold is inclusive (>= 0.00025)
FundingComponent_ge(funding_btc, funding_majors) ==
    IF funding_btc # None /\ funding_majors # None
    THEN LET avg_funding == FltDivInt(FltAdd(FundingFloat(Val(funding_btc)),
                                             FundingFloat(Val(funding_majors))), 2)
         IN  IF FltGe(avg_funding, Lit(25, 100000))
             THEN <<-4, <<"High positive funding - many leveraged longs.">> >>
             ELSE IF FltLt(FltZero, avg_funding) /\ FltLe(avg_funding, Lit(25, 100000))
             THEN <<0, <<"Mild positive funding - bullish positioning but not extreme.">> >>
             ELSE IF FltLt(avg_funding, FltZero)
             THEN <<4, <<"Negative funding - market leaning short, contrarian bullish.">> >>
             ELSE <<0, <<>> >>
    ELSE <<0, <<>> >>

\* funding scoring: <<quarters, notes>>
FundingComponent(funding_btc, funding_majors) ==
    IF funding_btc # None /\ funding_majors # None
    THEN LET avg_funding == FltDivInt(FltAdd(FundingFloat(Val(funding_btc)),
                                             FundingFloat(Val(funding_majors))), 2)
         IN  IF FltGt(avg_funding, Lit(25, 100000))
             THEN <<-4, <<"High positive funding - many leveraged longs.">> >>
             ELSE IF FltLt(FltZero, avg_funding) /\ FltLe(avg_funding, Lit(25, 100000))
             THEN <<0, <<"Mild positive funding - bullish positioning but not extreme.">> >>
             ELSE IF FltLt(avg_funding, FltZero)
             THEN <<4, <<"Negative funding - market leaning short, contrarian bullish.">> >>
             ELSE <<0, <<>> >>
    ELSE <<0, <<>> >>

\* liquidations scoring: <<quarters, notes>>
LiquidationComponent(liq_data) ==
    IF TruthyDict(liq_data)
    THEN LET longs  == DictGet(Val(liq_data), "longs", 0)
             shorts == DictGet(Val(liq_data), "shorts", 0)
             total  == DictGet(Val(liq_data), "total", 0)
         IN  IF total > 0 /\ longs > shorts * 2
             THEN <<2, <<"Recent long liquidations - some excess leveraged longs flushed.">> >>
             ELSE IF total > 0 /\ shorts > longs * 2
             THEN <<-2, <<"Recent short liquidations - shorts squeezed, risk of pullback.">> >>
             ELSE <<0, <<>> >>
    ELSE <<0, <<>> >>

LeverageLabel(score) ==
    IF score >= 6 THEN "Clean / low leverage - safer environment."
    ELSE IF 2 <= score /\ score < 6 THEN "Slightly favorable leverage conditions."
    ELSE IF -2 < score /\ score < 2 THEN "Neutral - normal leverage conditions."
    ELSE IF -6 <= score /\ score <= -2 THEN "Elevated leverage - be cautious with alts."
    ELSE "High leverage risk - avoid aggressive alt exposure."

\* mutant: the OI and funding components count double and the sum is
\* returned without the clamp
score_leverage_unclamped(oi_usd, total_mkt_cap, funding_btc, funding_majors, liq_data) ==
    IF ~Truthy(oi_usd) \/ ~Truthy(total_mkt_cap)
    THEN Return(0, <<"Unknown leverage conditions">>)
    ELSE LET q == PyDiv(oi_usd, total_mkt_cap)
         IN  IF q.kind = "raise" THEN q
             ELSE LET oi  == OiComponent(q.v)
                      fu  == FundingComponent(funding_btc, funding_majors)
                      li  == LiquidationComponent(liq_data)
                      score == 0 + 2 * oi[1] + 2 * fu[1] + li[1]
                  IN  Return(score, <<LeverageLabel(score)>> \o oi[2] \o fu[2] \o li[2])

\* mutant: only None counts as absent
score_leverage_is_none(oi_usd, total_mkt_cap, funding_btc, funding_majors, liq_data) ==
    IF oi_usd = None \/ total_mkt_cap = None
    THEN Return(0, <<"Unknown leverage conditions">>)
    ELSE LET q == PyDiv(oi_usd, total_mkt_cap)
         IN  IF q.kind = "raise" THEN q
             ELSE LET oi  == OiComponent(q.v)
                      fu  == FundingComponent(funding_btc, funding_majors)
                      li  == LiquidationComponent(liq_data)
                      score == Clamp(0 + oi[1] + fu[1] + li[1])
                  IN  Return(score, <<LeverageLabel(score)>> \o oi[2] \o fu[2] \o li[2])

score_leverage(oi_usd, total_mkt_cap, funding_btc, funding_majors, liq_data) ==
    IF ~Truthy(oi_usd) \/ ~Truthy(total_mkt_cap)
    THEN Return(0, <<"Unknown leverage conditions">>)
    ELSE LET q == PyDiv(oi_usd, total_mkt_cap)
         IN  IF q.kind = "raise" THEN q
             ELSE LET oi  == OiComponent(q.v)
                      fu  == FundingComponent(funding_btc, funding_majors)
                      li  == LiquidationComponent(liq_data)
                      score == Clamp(0 + oi[1] + fu[1] + li[1])
                  IN  Return(score, <<LeverageLabel(score)>> \o oi[2] \o fu[2] \o li[2])

\* mutant: a stablecoin share of exactly 8 counts as low
StableComponent_le(stable_dom) ==
    IF stable_dom # None
    THEN IF 10 <= Val(stable_dom) /\ Val(stable_dom) <= 18
         THEN <<4, <<"Meaningful stablecoin 'dry powder' available.">> >>
         ELSE IF Val(stable_dom) <= 8
         THEN <<-2, <<"Lower stablecoin share - less sidelined capital.">> >>
         ELSE <<0, <<"Stablecoin share neutral.">> >>
    ELSE <<0, <<>> >>

\* stablecoin dominance scoring: <<quarters, notes>>
StableComponent(stable_dom) ==
    IF stable_dom # None
    THEN IF 10 <= Val(stable_dom) /\ Val(stable_dom) <= 18
         THEN <<4, <<"Meaningful stablecoin 'dry powder' available.">> >>
         ELSE IF Val(stable_dom) < 8
         THEN <<-2, <<"Lower stablecoin share - less sidelined capital.">> >>
         ELSE <<0, <<"Stablecoin share neutral.">> >>
    ELSE <<0, <<>> >>

\* net flow scoring for BTC (weight 2 quarters) and ETH (weight 1 quarter)
NetflowComponent(netflow, weight, asset) ==
    IF netflow # None
    THEN IF Val(netflow) < 0
         THEN <<weight, <<asset \o " net outflows - accumulation signal.">> >>
         ELSE IF Val(netflow) > 0
         THEN <<-weight, <<asset \o " net inflows - potential sell pressure.">> >>
         ELSE <<0, <<>> >>
    ELSE <<0, <<>> >>

FlowsLabel(score) ==
    IF score >= 6 THEN "Supportive capital flows - environment favors upside."
    ELSE IF 2 <= score /\ score < 6 THEN "Mildly supportive flows."
    ELSE IF -2 < score /\ score < 2 THEN "Neutral flows."
    ELSE IF -6 <= score /\ score <= -2 THEN "Flows slightly against risk assets."
    ELSE "Adverse flows - higher risk of downside."

\* mutant: the BTC flow note comes before the stablecoin note
score_flows_reordered(stable_dom, btc_netflow, eth_netflow) ==
    LET st == StableComponent(stable_dom)
        bt == NetflowComponent(btc_netflow, 2, "BTC")
        et == NetflowComponent(eth_netflow, 1, "ETH")
        score == Clamp(0 + st[1] + bt[1] + et[1])
    IN  Return(score, <<FlowsLabel(score)>> \o bt[2] \o st[2] \o et[2])

score_flows(stable_dom, btc_netflow, eth_netflow) ==
    LET st == StableComponent(stable_dom)
        bt == NetflowComponent(btc_netflow, 2, "BTC")
        et == NetflowComponent(eth_netflow, 1, "ETH")
        score == Clamp(0 + st[1] + bt[1] + et[1])
    IN  Return(score, <<FlowsLabel(score)>> \o st[2] \o bt[2] \o et[2])


\* 0.35 * cycle_s + 0.20 * rotation_s + 0.20 * lev_s + 0.15 * sent_s
\* + 0.10 * flows_s, evaluated left to right in binary64
WeightedTotal(cycle_s, rotation_s, lev_s, sent_s, flows_s) ==
    FltAdd(FltAdd(FltAdd(FltAdd(FltMulQuarters(Lit(35, 100), cycle_s),
                                FltMulQuarters(Lit(20, 100), rotation_s)),
                         FltMulQuarters(Lit(20, 100), lev_s)),
                  FltMulQuarters(Lit(15, 100), sent_s)),
           FltMulQuarters(Lit(10, 100), flows_s))

TotalLabel(total) ==
    IF FltGe(total, FltOfInt(2)) THEN "Bullish - accumulate BTC, selective alts."
    ELSE IF FltLe(FltOfInt(1), total) /\ FltLt(total, FltOfInt(2))
    THEN "Constructive - BTC-led with room for majors."
    ELSE IF FltLt(Lit(-5, 10), total) /\ FltLt(total, FltOfInt(1))
    THEN "Mixed - favor BTC, reduce alts."
    ELSE IF FltLe(Lit(-15, 10), total) /\ FltLe(total, Lit(-5, 10))
    THEN "Defensive - reduce alts, increase stables."
    ELSE "High risk - avoid alts, keep BTC + stables."

combine_scores(cycle_s, rotation_s, lev_s, sent_s, flows_s) ==
    LET total == WeightedTotal(cycle_s, rotation_s, lev_s, sent_s, flows_s)
    IN  [total |-> total, label |-> TotalLabel(total)]

(***************************************************************************)
(* INVESTOR PLAYBOOK                                                       *)
(***************************************************************************)
\* mutant: the Altcoins and Stablecoins percentages are exchanged
Alloc_swapped(btc, eth, alt, stable) ==
    [k \in {"BTC", "ETH / majors", "Altcoins", "Stablecoins"} |->
        IF k = "BTC" THEN btc
        ELSE IF k = "ETH / majors" THEN eth
        ELSE IF k = "Altcoins" THEN stable
        ELSE alt]

Alloc(btc, eth, alt, stable) ==
    [k \in {"BTC", "ETH / majors", "Altcoins", "Stablecoins"} |->
        IF k = "BTC" THEN btc
        ELSE IF k = "ETH / majors" THEN eth
        ELSE IF k = "Altcoins" THEN alt
        ELSE stable]

DefaultAlloc == Alloc(50, 25, 15, 10)
DefaultHeadline == "Neutral environment - balanced allocation."

\* mutant: the Mixed bracket starts at 0.5 instead of -0.5
PlaybookPlan_typo(total_score) ==
    LET default == [alloc |-> DefaultAlloc, headline |-> DefaultHeadline]
    IN  IF FltGe(total_score, FltOfInt(2))
        THEN [alloc |-> Alloc(50, 25, 15, 10),
              headline |-> "Bullish setup - focus on BTC, with selective exposure to strong majors and altcoins."]
        ELSE IF FltLe(FltOfInt(1), total_score) /\ FltLt(total_score, FltOfInt(2))
        THEN [alloc |-> Alloc(55, 25, 10, 10),
              headline |-> "Constructive market - prioritize BTC and quality majors, keep altcoins sized modestly."]
        ELSE IF FltLt(Lit(5, 10), total_score) /\ FltLt(total_score, FltOfInt(1))
        THEN [alloc |-> Alloc(60, 20, 5, 15),
              headline |-> "Mixed signals - lean into BTC, reduce altcoin exposure, keep some dry powder."]
        ELSE IF FltLe(Lit(-15, 10), total_score) /\ FltLe(total_score, Lit(-5, 10))
        THEN [alloc |-> Alloc(50, 15, 0, 35),
              headline |-> "Defensive stance - avoid new altcoin risk, increase stablecoins and keep core BTC."]
        ELSE [alloc |-> Alloc(40, 10, 0, 50),
              headline |-> "High-risk environment - avoid altcoins, focus on capital preservation."]

\* the allocation and headline chosen from total_score, starting from the
\* default plan
PlaybookPlan(total_score) ==
    LET default == [alloc |-> DefaultAlloc, headline |-> DefaultHeadline]
    IN  IF FltGe(total_score, FltOfInt(2))
        THEN [alloc |-> Alloc(50, 25, 15, 10),
              headline |-> "Bullish setup - focus on BTC, with selective exposure to strong majors and altcoins."]
        ELSE IF FltLe(FltOfInt(1), total_score) /\ FltLt(total_score, FltOfInt(2))
        THEN [alloc |-> Alloc(55, 25, 10, 10),
              headline |-> "Constructive market - prioritize BTC and quality majors, keep altcoins sized modestly."]
        ELSE IF FltLt(Lit(-5, 10), total_score) /\ FltLt(total_score, FltOfInt(1))
        THEN [alloc |-> Alloc(60, 20, 5, 15),
              headline |-> "Mixed signals - lean into BTC, reduce altcoin exposure, keep some dry powder."]
        ELSE IF FltLe(Lit(-15, 10), total_score) /\ FltLe(total_score, Lit(-5, 10))
        THEN [alloc |-> Alloc(50, 15, 0, 35),
              headline |-> "Defensive stance - avoid new altcoin risk, increase stablecoins and keep core BTC."]
        ELSE [alloc |-> Alloc(40, 10, 0, 50),
              headline |-> "High-risk environment - avoid altcoins, focus on capital preservation."]

\* the detail lines on the cycle and on BTC dominance
CycleDetails(cycle_score) ==
    IF cycle_score >= 8
    THEN << <<"Cycle suggests early/mid-bull positioning - upside still available.">> >>
    ELSE IF cycle_score <= -4
    THEN << <<"Cycle suggests late-stage or euphoric conditions - downside risk increases.">> >>
    ELSE <<>>

DominanceDetails(btc_dominance) ==
    IF Truthy(btc_dominance) /\ Val(btc_dominance) >= 55
    THEN << <<"BTC dominance is high and/or rising - market is BTC-led.">> >>
    ELSE IF Truthy(btc_dominance) /\ Val(btc_dominance) <= 45
    THEN << <<"BTC dominance is low - altcoins can move faster but are riskier.">> >>
    ELSE <<>>

build_investor_playbook(cycle_score, cycle_label, rotation_score, rotation_label, leverage_score, leverage_label, sentiment_score, sentiment_label, flows_score, flows_label, btc_dominance) ==
    LET c == combine_scores(cycle_score, rotation_score, leverage_score,
                            sentiment_score, flows_score)
        plan == PlaybookPlan(c.total)
        details == CycleDetails(cycle_score) \o DominanceDetails(btc_dominance)
                   \o << <<"Leverage conditions:">> \o leverage_label,
                         <<"Sentiment:">> \o sentiment_label,
                         <<"Flows:">> \o flows_label >>
    IN  [total_score |-> c.total, total_label |-> c.label,
         allocation |-> plan.alloc, headline |-> plan.headline,
         details |-> details]


(***************************************************************************)
(* HELPERS - FETCH DATA.  A response is what the network gives back for    *)
(* one request: status "ok" with the decoded JSON payload, or the          *)
(* exception requests.get / raise_for_status / r.json raises.              *)
(***************************************************************************)
Response(status, json) == [status |-> status, json |-> json]

EmptyDict == [k \in {} |-> 0]

\* d.get(k) for a dict d: None when the key is missing
Get(d, k) == IF k \in DOMAIN d THEN Some(d[k]) ELSE None

\* d.get(k) for a key whose JSON value is a string
GetStr(d, k) == IF k \in DOMAIN d THEN Str(d[k]) ELSE None

\* the body of fetch_json's try block
HttpGet(response) ==
    IF response.status = "ok" THEN Value(Some(response.json)) ELSE Raise(response.status)

\* mutant: the exception leaves fetch_json
fetch_json_uncaught(response) == HttpGet(response)

fetch_json(response) ==
    LET r == HttpGet(response)
    IN  IF r.kind = "raise" THEN Value(None) ELSE r

\* the titles of the static demo news
DemoNews == <<"Fed signals potential rate cuts as inflation cools",
              "Bitcoin ETFs record strong weekly inflows",
              "EU moves forward with MiCA crypto regulation framework">>

\* art.get("title") or "No title"
TitleOf(art) ==
    IF "title" \in DOMAIN art /\ art["title"] # "" THEN art["title"] ELSE "No title"

get_news_basic(news_key, response) ==
    IF ~news_key THEN Value(DemoNews)
    ELSE LET data == fetch_json(response)
         IN  IF data.kind = "raise" THEN data
             ELSE IF ~TruthyDict(data.v) \/ "articles" \notin DOMAIN Val(data.v)
             THEN Value(<<>>)
             ELSE LET articles == Val(data.v)["articles"]
                  IN  Value([i \in DOMAIN articles |->
                                 TitleOf(articles[i])])

get_coingecko_bitcoin(response) == fetch_json(response)

get_coingecko_global(response) == fetch_json(response)

get_fear_and_greed(response) ==
    LET data == fetch_json(response)
    IN  IF data.kind = "raise" THEN data
        ELSE IF TruthyDict(data.v) /\ "data" \in DOMAIN Val(data.v)
                /\ Len(Val(data.v)["data"]) > 0
        THEN Value(Some(Val(data.v)["data"][1]))
        ELSE Value(None)

\* the three CoinGlass fetchers: a demo value without the API key; with it,
\* None when the fetch fails, else the placeholder value
CoinGlass(coinglass_key, response, demo, placeholder) ==
    IF ~coinglass_key THEN Value(Some(demo))
    ELSE LET data == fetch_json(response)
         IN  IF data.kind = "raise" THEN data
             ELSE IF ~TruthyDict(data.v) THEN Value(None)
             ELSE Value(Some(placeholder))

get_oi_data(coinglass_key, response) ==
    CoinGlass(coinglass_key, response, [value |-> 28, demo |-> TRUE],
              [value |-> 28, demo |-> FALSE])

get_funding_data(coinglass_key, response) ==
    CoinGlass(coinglass_key, response,
              [btc |-> 12, majors_avg |-> 20, demo |-> TRUE],
              [btc |-> 12, majors_avg |-> 20, demo |-> FALSE])

get_liquidations_data(coinglass_key, response) ==
    CoinGlass(coinglass_key, response,
              [total |-> 180, longs |-> 140, shorts |-> 40, demo |-> TRUE],
              [total |-> 180, longs |-> 140, shorts |-> 40, demo |-> FALSE])

(***************************************************************************)
(* main: parsing of what was fetched into the readings the scorers take    *)
(***************************************************************************)
StableKeys == <<"usdt", "usdc", "dai", "busd", "tusd">>

RECURSIVE StablesPct(_, _)
StablesPct(perc, i) ==
    IF i > Len(StableKeys) THEN 0
    ELSE LET v == Get(perc, StableKeys[i])
         IN  (IF Truthy(v) THEN Val(v) ELSE 0) + StablesPct(perc, i + 1)

ParseReadings(f) ==
    LET mkt == IF TruthyDict(f.btc_data)
               THEN DictGet(Val(f.btc_data), "market_data", EmptyDict)
               ELSE EmptyDict
        global_mkt == IF TruthyDict(f.global_data)
                      THEN DictGet(Val(f.global_data), "data", EmptyDict)
                      ELSE EmptyDict
        perc == DictGet(global_mkt, "market_cap_percentage", EmptyDict)
        total_mkt_cap == Get(DictGet(global_mkt, "total_market_cap", EmptyDict), "usd")
        stables_pct == StablesPct(perc, 1)
    IN  [btc_price |-> Get(DictGet(mkt, "current_price", EmptyDict), "usd"),
         btc_ath |-> Get(DictGet(mkt, "ath", EmptyDict), "usd"),
         btc_dom |-> Get(perc, "btc"),
         total_mkt_cap |-> total_mkt_cap,
         stable_dom |-> IF /\ DOMAIN global_mkt # {}
                           /\ "total_market_cap" \in DOMAIN global_mkt
                           /\ "market_cap_percentage" \in DOMAIN global_mkt
                           /\ stables_pct # 0 /\ Truthy(total_mkt_cap)
                        THEN Some(stables_pct) ELSE None,
         fng_value |-> IF TruthyDict(f.fng_data) THEN GetStr(Val(f.fng_data), "value")
                       ELSE None,
         eth_btc_change_30d |-> None,
         btc_netflow |-> None,
         eth_netflow |-> None,
         oi_info |-> f.oi_info,
         funding_info |-> f.funding_info,
         liq_info |-> f.liq_info]


(***************************************************************************)
(* State                                                                   *)
(*   pc        position of the running call or render                      *)
(*   call      the function being called and its arguments                 *)
(*   ret       what the call returned or raised (None until it has)        *)
(*   now       the last value read from the clock (ticks since the halving)*)
(*   cfg       NEWSAPI_KEY / COINGLASS_API_KEY set or not                  *)
(*   fetched   what main's fetches returned                                *)
(*   rd        the readings main passes to the scorers                     *)
(*   sc        the pillar scores of the render in progress                 *)
(*   playbook  the playbook of the render in progress                      *)
(*   prev      the clock, scores and playbook of the render before         *)
(*   renders   the number of renders completed                             *)
(***************************************************************************)
VARIABLES pc, call, ret, now, cfg, fetched, rd, sc, playbook, prev, renders

vars == <<pc, call, ret, now, cfg, fetched, rd, sc, playbook, prev, renders>>

Opt(S) == {None} \cup {Some(v) : v \in S}

(***************************************************************************)
(* Bounded inputs.  Prices in thousand USD, OI and market cap in billion   *)
(* USD, liquidations and net flows in million USD, dominance in percent,   *)
(* funding in 1/100000, ETH/BTC change in 1/100, time in ticks.            *)
(***************************************************************************)
Prices == {0, 30, 50, 55, 80, 100, 110, 120}
Aths == {0, 69, 100}
Times == {-1, 0, 1, 270 * TicksPerDay, 270 * TicksPerDay + 1, 271 * TicksPerDay, 900 * TicksPerDay}
FngValues == 0..100
Dominances == {0, 40, 44, 45, 50, 54, 55, 60}
RatioChanges == {-11, -10, 0, 10, 11}
OiValues == {0, 20, 28, 30, 70, 80}
MktCaps == {0, 1000}
Fundings == {-10, 0, 12, 20, 25, 30}
Liquidation(total, longs, shorts) == [total |-> total, longs |-> longs, shorts |-> shorts]
Liquidations == {Liquidation(180, 140, 40), Liquidation(180, 40, 140),
                 Liquidation(180, 100, 80), Liquidation(180, 120, 60),
                 Liquidation(0, 0, 0)}
StableDoms == {0, 5, 7, 8, 9, 10, 14, 18, 19}
Netflows == {-1, 0, 1}
CycleScores == {-8, -6, 0, 2, 8, 10, 12, 14}
RotationScores == {-6, -4, 0, 4, 6}
LeverageScores == {-10, -4, 0, 4, 10}
SentimentScores == {-8, -4, 0, 4, 8}
FlowsScores == {-5, -2, 0, 4, 7}

CycleCalls ==
    {[fn |-> "score_cycle", args |-> <<p, a>>] : p \in Opt(Prices), a \in Opt(Aths)}
SentimentCalls ==
    {[fn |-> "score_sentiment", args |-> <<v>>] : v \in Opt(FngValues)}
RotationCalls ==
    {[fn |-> "score_rotation", args |-> <<d, r>>] :
        d \in Opt(Dominances), r \in Opt(RatioChanges)}
LeverageCalls ==
    {[fn |-> "score_leverage", args |-> <<o, m, fb, fm, l>>] :
        o \in Opt(OiValues), m \in Opt(MktCaps), fb \in Opt(Fundings),
        fm \in Opt(Fundings), l \in Opt(Liquidations)}
FlowsCalls ==
    {[fn |-> "score_flows", args |-> <<s, b, e>>] :
        s \in Opt(StableDoms), b \in Opt(Netflows), e \in Opt(Netflows)}
CombineCalls ==
    {[fn |-> "combine_scores", args |-> <<c, r, l, s, f>>] :
        c \in CycleScores, r \in RotationScores, l \in LeverageScores,
        s \in SentimentScores, f \in FlowsScores}
PlaybookCalls ==
    {[fn |-> "build_investor_playbook",
      args |-> <<c, <<"cycle">>, r, <<"rotation">>, l, <<"leverage">>,
                 s, <<"sentiment">>, f, <<"flows">>, d>>] :
        c \in {-8, 0, 8, 14}, r \in {-6, 0, 6}, l \in {-10, 0, 10},
        s \in {-8, 0, 8}, f \in {-5, 0, 7}, d \in Opt({0, 45, 50, 60})}

NoCfg == [news_key |-> FALSE, coinglass_key |-> FALSE]
NoScores == [cycle |-> None, sentiment |-> None, rotation |-> None,
             leverage |-> None, flows |-> None]

(***************************************************************************)
(* Spec: one call of one function of the scoring core, on arguments drawn  *)
(* from the bounded inputs.                                                *)
(***************************************************************************)
Init ==
    /\ pc = "call"
    /\ call \in CycleCalls \cup SentimentCalls \cup RotationCalls \cup LeverageCalls
                \cup FlowsCalls \cup CombineCalls \cup PlaybookCalls
    /\ ret = None
    /\ now \in (IF call.fn = "score_cycle" THEN Times ELSE {0})
    /\ cfg = NoCfg
    /\ fetched = None
    /\ rd = None
    /\ sc = NoScores
    /\ playbook = None
    /\ prev = None
    /\ renders = 0

Returned(r) ==
    /\ ret' = Some(r)
    /\ pc' = "returned"
    /\ UNCHANGED <<call, now, cfg, fetched, rd, sc, playbook, prev, renders>>

CallScoreCycle ==
    /\ pc = "call" /\ call.fn = "score_cycle"
    /\ Returned(score_cycle(call.args[1], call.args[2], now))

CallScoreSentiment ==
    /\ pc = "call" /\ call.fn = "score_sentiment"
    /\ Returned(score_sentiment(call.args[1]))

CallScoreRotation ==
    /\ pc = "call" /\ call.fn = "score_rotation"
    /\ Returned(score_rotation(call.args[1], call.args[2]))

CallScoreLeverage ==
    /\ pc = "call" /\ call.fn = "score_leverage"
    /\ Returned(score_leverage(call.args[1], call.args[2], call.args[3],
                               call.args[4], call.args[5]))

CallScoreFlows ==
    /\ pc = "call" /\ call.fn = "score_flows"
    /\ Returned(score_flows(call.args[1], call.args[2], call.args[3]))

CallCombineScores ==
    /\ pc = "call" /\ call.fn = "combine_scores"
    /\ Returned(combine_scores(call.args[1], call.args[2], call.args[3],
                               call.args[4], call.args[5]))

CallBuildInvestorPlaybook ==
    /\ pc = "call" /\ call.fn = "build_investor_playbook"
    /\ Returned(build_investor_playbook(
                    call.args[1], call.args[2], call.args[3], call.args[4],
                    call.args[5], call.args[6], call.args[7], call.args[8],
                    call.args[9], call.args[10], call.args[11]))

Next ==
    \/ CallScoreCycle
    \/ CallScoreSentiment
    \/ CallScoreRotation
    \/ CallScoreLeverage
    \/ CallScoreFlows
    \/ CallCombineScores
    \/ CallBuildInvestorPlaybook

Spec == Init /\ [][Next]_vars

(***************************************************************************)
(* main: one run of the script.  Each fetch gets one response from the     *)
(* network; the clock is read by score_cycle and never runs backwards.     *)
(***************************************************************************)
MaxRenders == 2

ClockStart == 270 * TicksPerDay
ClockTimes == {ClockStart, ClockStart + 1, ClockStart + TicksPerDay}

Failures == {Response("ConnectionError", <<>>), Response("HTTPError", <<>>),
             Response("JSONDecodeError", <<>>)}
Ok(S) == {Response("ok", json) : json \in S}

NewsResponses ==
    Failures \cup Ok({[articles |-> << [title |-> "Fed holds rates"], [url |-> "u"] >>],
                      [status |-> "error"]})
BtcResponses ==
    Failures \cup Ok({[market_data |-> [current_price |-> [usd |-> p], ath |-> [usd |-> 69]]] :
                          p \in {30, 80}}
                     \cup {[error |-> "coin not found"]})
GlobalResponses ==
    Failures \cup Ok({[data |-> [market_cap_percentage |-> [btc |-> 60, usdt |-> 9, usdc |-> 5],
                                 total_market_cap |-> [usd |-> 1000]]],
                      [data |-> [market_cap_percentage |-> [btc |-> 40, usdt |-> 0],
                                 total_market_cap |-> [usd |-> 1000]]],
                      [data |-> [market_cap_percentage |-> [btc |-> 60, usdt |-> 9, usdc |-> 5]]],
                      [error |-> "unavailable"]})
FngResponses ==
    Failures \cup Ok({[data |-> << [value |-> <<"1", "5">>, value_classification |-> "Extreme Fear"] >>],
                      [data |-> << [value |-> <<"8", "0">>, value_classification |-> "Extreme Greed"] >>],
                      [data |-> << >>]})
CoinGlassResponses == Failures \cup Ok({[code |-> "0"]})

NoFetched == [news |-> <<>>, btc_data |-> None, global_data |-> None, fng_data |-> None,
              oi_info |-> None, funding_info |-> None, liq_info |-> None]

InitMain ==
    /\ pc = "get_news_basic"
    /\ call = None
    /\ ret = None
    /\ now = ClockStart
    /\ cfg \in [news_key : BOOLEAN, coinglass_key : BOOLEAN]
    /\ fetched = NoFetched
    /\ rd = None
    /\ sc = NoScores
    /\ playbook = None
    /\ prev = None
    /\ renders = 0

\* an exception raised inside main ends the run
Fetched(key, r, next) ==
    /\ IF r.kind = "raise"
       THEN pc' = "crashed" /\ UNCHANGED fetched
       ELSE pc' = next /\ fetched' = [fetched EXCEPT ![key] = r.v]
    /\ UNCHANGED <<call, ret, now, cfg, rd, sc, playbook, prev, renders>>

GetNewsBasic ==
    /\ pc = "get_news_basic"
    /\ \E response \in NewsResponses :
           Fetched("news", get_news_basic(cfg.news_key, response), "get_coingecko_bitcoin")

GetCoingeckoBitcoin ==
    /\ pc = "get_coingecko_bitcoin"
    /\ \E response \in BtcResponses :
           Fetched("btc_data", get_coingecko_bitcoin(response), "get_coingecko_global")

GetCoingeckoGlobal ==
    /\ pc = "get_coingecko_global"
    /\ \E response \in GlobalResponses :
           Fetched("global_data", get_coingecko_global(response), "get_fear_and_greed")

GetFearAndGreed ==
    /\ pc = "get_fear_and_greed"
    /\ \E response \in FngResponses :
           Fetched("fng_data", get_fear_and_greed(response), "get_oi_data")

GetOiData ==
    /\ pc = "get_oi_data"
    /\ \E response \in CoinGlassResponses :
           Fetched("oi_info", get_oi_data(cfg.coinglass_key, response), "get_funding_data")

GetFundingData ==
    /\ pc = "get_funding_data"
    /\ \E response \in CoinGlassResponses :
           Fetched("funding_info", get_funding_data(cfg.coinglass_key, response),
                   "get_liquidations_data")

GetLiquidationsData ==
    /\ pc = "get_liquidations_data"
    /\ \E response \in CoinGlassResponses :
           Fetched("liq_info", get_liquidations_data(cfg.coinglass_key, response), "parse")

Parse ==
    /\ pc = "parse"
    /\ rd' = ParseReadings(fetched)
    /\ pc' = "score_cycle"
    /\ UNCHANGED <<call, ret, now, cfg, fetched, sc, playbook, prev, renders>>

\* cycle_score, cycle_label = score_...(...): an exception ends the run
Scored(pillar, r, next) ==
    /\ IF r.kind = "raise"
       THEN pc' = "crashed" /\ UNCHANGED sc
       ELSE pc' = next /\ sc' = [sc EXCEPT ![pillar] = Some(r)]
    /\ UNCHANGED <<call, ret, cfg, fetched, rd, playbook, prev, renders>>

ScoreCycle ==
    /\ pc = "score_cycle"
    /\ \E t \in ClockTimes :
           /\ t >= now
           /\ now' = t
           /\ Scored("cycle", score_cycle(rd.btc_price, rd.btc_ath, t), "score_sentiment")

ScoreSentiment ==
    /\ pc = "score_sentiment"
    /\ Scored("sentiment", score_sentiment(rd.fng_value), "score_rotation")
    /\ UNCHANGED now

ScoreRotation ==
    /\ pc = "score_rotation"
    /\ Scored("rotation", score_rotation(rd.btc_dom, rd.eth_btc_change_30d), "score_leverage")
    /\ UNCHANGED now

ScoreLeverage ==
    /\ pc = "score_leverage"
    /\ LET oi_val == IF TruthyDict(rd.oi_info) THEN Get(Val(rd.oi_info), "value") ELSE None
           funding_btc == IF TruthyDict(rd.funding_info)
                          THEN Get(Val(rd.funding_info), "btc") ELSE None
           funding_majors == IF TruthyDict(rd.funding_info)
                             THEN Get(Val(rd.funding_info), "majors_avg") ELSE None
       IN  Scored("leverage",
                  score_leverage(oi_val, rd.total_mkt_cap, funding_btc, funding_majors,
                                 rd.liq_info),
                  "score_flows")
    /\ UNCHANGED now

ScoreFlows ==
    /\ pc = "score_flows"
    /\ Scored("flows", score_flows(rd.stable_dom, rd.btc_netflow, rd.eth_netflow),
              "build_investor_playbook")
    /\ UNCHANGED now

BuildInvestorPlaybook ==
    /\ pc = "build_investor_playbook"
    /\ playbook' = Some(build_investor_playbook(
                            Val(sc.cycle).score, Val(sc.cycle).label,
                            Val(sc.rotation).score, Val(sc.rotation).label,
                            Val(sc.leverage).score, Val(sc.leverage).label,
                            Val(sc.sentiment).score, Val(sc.sentiment).label,
                            Val(sc.flows).score, Val(sc.flows).label, rd.btc_dom))
    /\ pc' = "render"
    /\ UNCHANGED <<call, ret, now, cfg, fetched, rd, sc, prev, renders>>

\* the three render sections: absent values are shown as N/A
Render ==
    /\ pc = "render"
    /\ pc' = "rendered"
    /\ renders' = renders + 1
    /\ UNCHANGED <<call, ret, now, cfg, fetched, rd, sc, playbook, prev>>

NextMain ==
    \/ GetNewsBasic
    \/ GetCoingeckoBitcoin
    \/ GetCoingeckoGlobal
    \/ GetFearAndGreed
    \/ GetOiData
    \/ GetFundingData
    \/ GetLiquidationsData
    \/ Parse
    \/ ScoreCycle
    \/ ScoreSentiment
    \/ ScoreRotation
    \/ ScoreLeverage
    \/ ScoreFlows
    \/ BuildInvestorPlaybook
    \/ Render

SpecMain == InitMain /\ [][NextMain]_vars

(***************************************************************************)
(* main when the Fear & Greed API is also allowed to answer with a value   *)
(* that is not a number                                                    *)
(***************************************************************************)
FngResponsesAny ==
    FngResponses
        \cup Ok({[data |-> << [value |-> <<"n", "/", "a">>, value_classification |-> "Unknown"] >>]})

GetFearAndGreedAny ==
    /\ pc = "get_fear_and_greed"
    /\ \E response \in FngResponsesAny :
           Fetched("fng_data", get_fear_and_greed(response), "get_oi_data")

NextMalformed ==
    \/ GetNewsBasic
    \/ GetCoingeckoBitcoin
    \/ GetCoingeckoGlobal
    \/ GetFearAndGreedAny
    \/ GetOiData
    \/ GetFundingData
    \/ GetLiquidationsData
    \/ Parse
    \/ ScoreCycle
    \/ ScoreSentiment
    \/ ScoreRotation
    \/ ScoreLeverage
    \/ ScoreFlows
    \/ BuildInvestorPlaybook
    \/ Render

SpecMalformed == InitMain /\ [][NextMalformed]_vars

(***************************************************************************)
(* The scoring section of main run on readings drawn from bounded sets,    *)
(* and run again on the same readings; prev keeps the clock, scores and    *)
(* playbook of the run before.                                             *)
(***************************************************************************)
Readings ==
    [btc_price : Opt({30, 80}), btc_ath : Opt({69}), btc_dom : Opt({60}),
     total_mkt_cap : Opt({1000}), stable_dom : Opt({14}), fng_value : Opt({15, 80}),
     eth_btc_change_30d : {None}, btc_netflow : {None}, eth_netflow : {None},
     oi_info : Opt({[value |-> 20, demo |-> FALSE]}),
     funding_info : Opt({[btc |-> 12, majors_avg |-> 20, demo |-> TRUE]}),
     liq_info : Opt({[total |-> 180, longs |-> 140, shorts |-> 40, demo |-> TRUE]})]

InitRender ==
    /\ pc = "score_cycle"
    /\ call = None
    /\ ret = None
    /\ now = ClockStart
    /\ cfg = NoCfg
    /\ fetched = NoFetched
    /\ rd \in Readings
    /\ sc = NoScores
    /\ playbook = None
    /\ prev = None
    /\ renders = 0

\* the script is run again
Rerender ==
    /\ pc = "rendered"
    /\ renders < MaxRenders
    /\ prev' = Some([now |-> now, sc |-> sc, playbook |-> playbook])
    /\ sc' = NoScores
    /\ playbook' = None
    /\ pc' = "score_cycle"
    /\ UNCHANGED <<call, ret, now, cfg, fetched, rd, renders>>

NextRender ==
    \/ ScoreCycle
    \/ ScoreSentiment
    \/ ScoreRotation
    \/ ScoreLeverage
    \/ ScoreFlows
    \/ BuildInvestorPlaybook
    \/ Render
    \/ Rerender

SpecRender == InitRender /\ [][NextRender]_vars


(***************************************************************************)
(* Claims checked under Spec                                               *)
(***************************************************************************)
Fn(f) == pc = "returned" /\ call.fn = f
Ret == Val(ret)
Returns(score, label) == Ret.kind = "return" /\ Ret.score = score /\ Ret.label = label

RequiredAbsent ==
    \/ call.fn = "score_cycle" /\ (call.args[1] = None \/ call.args[2] = None)
    \/ call.fn = "score_sentiment" /\ call.args[1] = None
    \/ call.fn = "score_rotation" /\ call.args[1] = None
    \/ call.fn = "score_leverage" /\ (call.args[1] = None \/ call.args[2] = None)
    \/ call.fn = "score_flows" /\ call.args[1] = None

UnknownLabel ==
    IF call.fn = "score_leverage" THEN <<"Unknown leverage conditions">>
    ELSE <<"Unknown">>

\* C1 as stated: each of the five pillar scorers, called with a required
\* input absent, returns score 0 with the label "Unknown" ("Unknown leverage
\* conditions" for score_leverage) and raises nothing.
C1_AbsentGivesUnknown ==
    pc = "returned" /\ RequiredAbsent => Returns(0, UnknownLabel)

\* C1 amended: score_cycle, score_sentiment, score_rotation and
\* score_leverage, called with a required input absent, return score 0 with
\* the label "Unknown" ("Unknown leverage conditions" for score_leverage);
\* score_flows has no "Unknown" result: with the stablecoin dominance absent
\* it still returns (never raises), and with all three of its readings absent
\* it returns score 0 with the label "Neutral flows." and no notes.
C1_AbsentHandled ==
    /\ pc = "returned" /\ RequiredAbsent /\ call.fn # "score_flows"
           => Returns(0, UnknownLabel)
    /\ Fn("score_flows") /\ call.args[1] = None => Ret.kind = "return"
    /\ Fn("score_flows") /\ call.args = <<None, None, None>>
           => Returns(0, <<"Neutral flows.">>)

C1_Witness ==
    /\ Fn("score_flows") /\ call.args = <<None, None, None>>
    /\ Returns(0, <<"Neutral flows.">>)

\* the bracket of pct = price / ATH - 1 in exact arithmetic, for ATH > 0
ExactCycleBase(price, ath) ==
    IF 2 * price <= ath THEN <<12, <<"Deep Value / Early Cycle">> >>
    ELSE IF 10 * price <= 8 * ath THEN <<8, <<"Early / Mid Bull">> >>
    ELSE IF 10 * price <= 11 * ath THEN <<0, <<"Mid / Late Bull">> >>
    ELSE <<-8, <<"Euphoria / Late Cycle">> >>

\* C3 as stated, for a non-zero price and ATH: score_cycle returns the base
\* and label of the bracket of pct = price/ATH - 1 (pct <= -0.5 -> 3;
\* -0.5 < pct <= -0.2 -> 2; -0.2 < pct <= 0.1 -> 0; pct > 0.1 -> -2), plus
\* 0.5 exactly when the current date is before the halving date or at most
\* 270 days after it.
C3_CycleBrackets ==
    Fn("score_cycle") /\ Truthy(call.args[1]) /\ Truthy(call.args[2])
        => LET b == ExactCycleBase(Val(call.args[1]), Val(call.args[2]))
               bonus == IF DaysSinceHalving(now) <= 270 THEN 2 ELSE 0
           IN  Returns(b[1] + bonus, b[2])

ExactOi(oi, cap) ==
    IF 100 * oi < 3 * cap THEN 4 ELSE IF 100 * oi <= 7 * cap THEN 0 ELSE -4

ExactFunding(fb, fm) ==
    IF fb = None \/ fm = None THEN 0
    ELSE IF Val(fb) + Val(fm) > 50 THEN -4
    ELSE IF Val(fb) + Val(fm) < 0 THEN 4
    ELSE 0

ExactLiquidation(liq) ==
    IF liq = None THEN 0
    ELSE IF Val(liq).total > 0 /\ Val(liq).longs > 2 * Val(liq).shorts THEN 2
    ELSE IF Val(liq).total > 0 /\ Val(liq).shorts > 2 * Val(liq).longs THEN -2
    ELSE 0

ExactLeverage ==
    ExactOi(Val(call.args[1]), Val(call.args[2]))
        + ExactFunding(call.args[3], call.args[4]) + ExactLiquidation(call.args[5])

\* C4 as stated: score_leverage, given a present OI and a present (non-zero)
\* market cap, returns the sum of the OI-ratio component, the funding
\* component and the liquidation component.
C4_PresentGivesSum ==
    Fn("score_leverage") /\ call.args[1] # None /\ call.args[2] # None
        /\ Val(call.args[2]) # 0
        => Ret.kind = "return" /\ Ret.score = ExactLeverage

\* C4 amended: score_leverage, given an OI and a market cap that are present
\* and not zero, returns the sum of the three components: OI/marketCap < 0.03
\* -> +1, 0.03..0.07 -> 0, > 0.07 -> -1; both fundings present, on their
\* average, > 0.00025 -> -1, (0, 0.00025] -> 0, < 0 -> +1; liquidations
\* present with total > 0, longs > 2*shorts -> +0.5, shorts > 2*longs -> -0.5.
\* (An OI or market cap of 0 is treated as absent.)
C4_LeverageSum ==
    Fn("score_leverage") /\ Truthy(call.args[1]) /\ Truthy(call.args[2])
        => Ret.kind = "return" /\ Ret.score = ExactLeverage

C4_Witness ==
    /\ Fn("score_leverage")
    /\ call.args = <<Some(20), Some(1000), Some(-10), Some(-10),
                     Some(Liquidation(180, 140, 40))>>
    /\ Ret.kind = "return" /\ Ret.score = 10

Scorers ==
    {"score_cycle", "score_sentiment", "score_rotation", "score_leverage", "score_flows"}

\* C8 as stated: every score produced by any of the five pillar scorers lies
\* in [-3, +3].
C8_ScoresWithin3 ==
    pc = "returned" /\ call.fn \in Scorers /\ Ret.kind = "return"
        => -12 <= Ret.score /\ Ret.score <= 12

\* C8 amended: every score produced by any of the five pillar scorers lies
\* in [-3, +3.5]: score_cycle's lies in [-2, 3.5] (3.5 is the base 3 plus the
\* halving bonus), the other four lie in [-3, 3].
C8_ScoreBounds ==
    pc = "returned" /\ call.fn \in Scorers
        => /\ Ret.kind = "return"
           /\ IF call.fn = "score_cycle"
              THEN -8 <= Ret.score /\ Ret.score <= 14
              ELSE -12 <= Ret.score /\ Ret.score <= 12

C8_Witness == Fn("score_cycle") /\ Ret.kind = "return" /\ Ret.score = 14

\* C9: score_leverage's returned score is always within [-3, 3], also when
\* the OI ratio, the funding average and the liquidation skew all push the
\* same way.
C9_LeverageClamped ==
    Fn("score_leverage") => Ret.kind = "return" /\ -12 <= Ret.score /\ Ret.score <= 12

C9_Witness ==
    /\ Fn("score_leverage")
    /\ call.args = <<Some(80), Some(1000), Some(30), Some(30),
                     Some(Liquidation(180, 40, 140))>>
    /\ Ret.kind = "return" /\ Ret.score = -10


\* the five brackets of the total score
InBracket(i, t) ==
    IF i = 1 THEN FltGe(t, FltOfInt(2))
    ELSE IF i = 2 THEN FltLe(FltOfInt(1), t) /\ FltLt(t, FltOfInt(2))
    ELSE IF i = 3 THEN FltLt(Lit(-5, 10), t) /\ FltLt(t, FltOfInt(1))
    ELSE IF i = 4 THEN FltLe(Lit(-15, 10), t) /\ FltLe(t, Lit(-5, 10))
    ELSE FltLt(t, Lit(-15, 10))

\* the label, allocation and headline predefined for each bracket
Predefined ==
    << [label |-> "Bullish - accumulate BTC, selective alts.",
        alloc |-> Alloc(50, 25, 15, 10),
        headline |-> "Bullish setup - focus on BTC, with selective exposure to strong majors and altcoins."],
       [label |-> "Constructive - BTC-led with room for majors.",
        alloc |-> Alloc(55, 25, 10, 10),
        headline |-> "Constructive market - prioritize BTC and quality majors, keep altcoins sized modestly."],
       [label |-> "Mixed - favor BTC, reduce alts.",
        alloc |-> Alloc(60, 20, 5, 15),
        headline |-> "Mixed signals - lean into BTC, reduce altcoin exposure, keep some dry powder."],
       [label |-> "Defensive - reduce alts, increase stables.",
        alloc |-> Alloc(50, 15, 0, 35),
        headline |-> "Defensive stance - avoid new altcoin risk, increase stablecoins and keep core BTC."],
       [label |-> "High risk - avoid alts, keep BTC + stables.",
        alloc |-> Alloc(40, 10, 0, 50),
        headline |-> "High-risk environment - avoid altcoins, focus on capital preservation."] >>

AllocSum(a) == a["BTC"] + a["ETH / majors"] + a["Altcoins"] + a["Stablecoins"]

\* what C5 says of a playbook p
PlaybookInBracket(p) ==
    LET hits == {i \in 1..5 : InBracket(i, p.total_score)}
    IN  /\ Cardinality(hits) = 1
        /\ \A i \in hits :
              /\ p.total_label = Predefined[i].label
              /\ p.allocation = Predefined[i].alloc
              /\ p.headline = Predefined[i].headline
        /\ p.headline # DefaultHeadline
        /\ <<p.allocation, p.headline>> # <<DefaultAlloc, DefaultHeadline>>
        /\ AllocSum(p.allocation) = 100

\* C5: build_investor_playbook returns, for every total score, exactly one
\* of the five predefined allocations with its headline, never the default
\* plan with the "Neutral environment" headline: the one of the bracket
\* (>= 2.0; [1.0, 2.0); (-0.5, 1.0); [-1.5, -0.5]; < -1.5) that combine_scores
\* used for total_label; exactly one bracket holds the total score, and the
\* four percentages sum to 100.
C5_PlaybookBracket == Fn("build_investor_playbook") => PlaybookInBracket(Ret)

C5_Witness ==
    /\ Fn("build_investor_playbook")
    /\ Ret.allocation = Alloc(40, 10, 0, 50)
    /\ Ret.total_label = "High risk - avoid alts, keep BTC + stables."

\* the exact value of the weighted sum, in 1/400
ExactTotal400(a) == 35 * a[1] + 20 * a[2] + 20 * a[3] + 15 * a[4] + 10 * a[5]

\* C6 as stated, where the value of 0.35*cycle + 0.20*rotation + 0.20*leverage
\* + 0.15*sentiment + 0.10*flows is a multiple of 0.25 (and so a float):
\* combine_scores returns that value as total; the five weights sum to
\* exactly 1.0; five equal pillar scores s give total s.
C6_WeightedSum ==
    Fn("combine_scores")
        => LET a == call.args
           IN  /\ ExactTotal400(a) % 100 = 0 => Ret.total = Lit(ExactTotal400(a), 400)
               /\ FltAdd(FltAdd(FltAdd(FltAdd(Lit(35, 100), Lit(20, 100)),
                                       Lit(20, 100)), Lit(15, 100)), Lit(10, 100))
                    = FltOfInt(1)
               /\ (\A i \in 2..5 : a[i] = a[1]) => Ret.total = Lit(a[1], 4)

(***************************************************************************)
(* Claims checked under SpecRender and SpecMain                            *)
(***************************************************************************)
Pillars == {"cycle", "sentiment", "rotation", "leverage", "flows"}
Score(p) == Val(sc[p]).score
Label(p) == Val(sc[p]).label
Plan == Val(playbook)
FltEq(x, y) == FltCmp(x, y) = 0

\* the whole days between the halving date and the clock reading
Day(t) == t \div TicksPerDay

SecondRenderDone == pc = "rendered" /\ prev # None
SameAsBefore == sc = Val(prev).sc /\ playbook = Val(prev).playbook

\* C7 as stated: running the scoring pipeline twice with identical readings
\* yields identical pillar scores, total score and allocation plan: the
\* result depends on nothing but the readings passed in.
C7_SameReadingsSameResult == SecondRenderDone => SameAsBefore

\* C7 amended: running the scoring pipeline twice with identical readings
\* on the same date (the same number of whole days since the halving)
\* yields identical pillar scores, total score and allocation plan; the
\* date score_cycle reads from the clock is the only input besides the
\* readings.
C7_SameReadingsSameDate ==
    SecondRenderDone /\ Day(now) = Day(Val(prev).now) => SameAsBefore

\* the second run read the clock later on day 270, the halving bonus applied
C7_Witness ==
    /\ SecondRenderDone
    /\ now > Val(prev).now
    /\ Day(now) = Day(Val(prev).now)
    /\ Score("cycle") = 14

ScenarioReadings ==
    [btc_price |-> Some(30), btc_ath |-> Some(69), btc_dom |-> Some(60),
     total_mkt_cap |-> Some(1000), stable_dom |-> Some(14), fng_value |-> Some(15),
     eth_btc_change_30d |-> None, btc_netflow |-> None, eth_netflow |-> None,
     oi_info |-> Some([value |-> 20, demo |-> FALSE]),
     funding_info |-> None, liq_info |-> None]

\* C10: in the scenario price 30,000, ATH 69,000, dominance 60, sentiment
\* 15, OI 20e9, market cap 1000e9, stablecoin dominance 14 and nothing else,
\* the pillar scores are rotation -1, sentiment 2, leverage +1, flows +1,
\* cycle 3 (3.5 on a date up to 270 days after the halving), the total is
\* 1.45 (1.625 with the bonus), labelled Constructive, in [1.0, 2.0), and
\* the plan is BTC 55 / ETH majors 25 / Altcoins 10 / Stablecoins 10.
C10_Scenario ==
    pc = "rendered" /\ rd = ScenarioReadings
        => LET bonus == Day(now) <= 270
           IN  /\ Score("rotation") = -4
               /\ Score("sentiment") = 8
               /\ Score("leverage") = 4
               /\ Score("flows") = 4
               /\ Score("cycle") = IF bonus THEN 14 ELSE 12
               /\ FltEq(Plan.total_score, Lit(IF bonus THEN 1625 ELSE 1450, 1000))
               /\ FltLe(FltOfInt(1), Plan.total_score)
               /\ FltLt(Plan.total_score, FltOfInt(2))
               /\ Plan.total_label = "Constructive - BTC-led with room for majors."
               /\ Plan.allocation = Alloc(55, 25, 10, 10)

\* the scenario rendered after the bonus window has closed
C10_Witness ==
    /\ pc = "rendered"
    /\ rd = ScenarioReadings
    /\ Score("cycle") = 12
    /\ Plan.allocation = Alloc(55, 25, 10, 10)

AllAbsent ==
    /\ \A k \in {"btc_price", "btc_ath", "btc_dom", "total_mkt_cap", "stable_dom",
                 "fng_value", "eth_btc_change_30d", "btc_netflow", "eth_netflow",
                 "oi_info", "funding_info", "liq_info"} : rd[k] = None

\* a failed fetch reaches main as None, main has not stopped on an
\* exception, and once the page is rendered the five pillar scores, the
\* total and the plan are all defined
FailuresAbsorbed ==
    /\ \A response \in Failures : fetch_json(response) = Value(None)
    /\ pc # "crashed"
    /\ pc = "rendered"
           => /\ \A p \in Pillars : sc[p] # None /\ Val(sc[p]).kind = "return"
              /\ playbook # None
              /\ AllocSum(Plan.allocation) = 100

\* C2 as stated: whatever fetches fail, fetch_json hands main None and not
\* an exception, and main renders with five pillar scores, a total and a
\* plan defined; when every reading is absent every pillar score and the
\* total are 0 with an "Unknown" label.
C2_AllAbsentUnknown ==
    /\ FailuresAbsorbed
    /\ pc = "rendered" /\ AllAbsent
           => /\ \A p \in Pillars :
                     /\ Score(p) = 0
                     /\ Label(p) \in {<<"Unknown">>, <<"Unknown leverage conditions">>}
              /\ FltEq(Plan.total_score, FltZero)
              /\ Plan.total_label = "Unknown"

AllAbsentResult ==
    pc = "rendered" /\ AllAbsent
        => /\ \A p \in Pillars : Score(p) = 0
           /\ \A p \in {"cycle", "sentiment", "rotation"} : Label(p) = <<"Unknown">>
           /\ Label("leverage") = <<"Unknown leverage conditions">>
           /\ Label("flows") = <<"Neutral flows.">>
           /\ FltEq(Plan.total_score, FltZero)
           /\ Plan.total_label = "Mixed - favor BTC, reduce alts."
           /\ Plan.allocation = Alloc(60, 20, 5, 15)

\* the positions main goes through, in order
MainOrder == <<"get_news_basic", "get_coingecko_bitcoin", "get_coingecko_global",
               "get_fear_and_greed", "get_oi_data", "get_funding_data",
               "get_liquidations_data", "parse", "score_cycle", "score_sentiment",
               "score_rotation", "score_leverage", "score_flows",
               "build_investor_playbook", "render", "rendered">>
Position(p) == CHOOSE i \in DOMAIN MainOrder : MainOrder[i] = p

\* C2 amended: whatever fetches fail, fetch_json hands main None and not an
\* exception, and every step of main leads to the next one up to the
\* rendered page, with five pillar scores, a total and a plan defined; when
\* every reading is absent every pillar score and the total are 0, the
\* cycle, sentiment and rotation labels are "Unknown", the leverage label is
\* "Unknown leverage conditions", the flows label is "Neutral flows." and
\* the total is labelled "Mixed - favor BTC, reduce alts." with the Mixed
\* plan 60 / 20 / 5 / 15.
C2_FetchFailuresHandled ==
    [][/\ pc' = MainOrder[Position(pc) + 1]
       /\ FailuresAbsorbed'
       /\ AllAbsentResult']_vars

\* every fetch failed (with a CoinGlass key set) and the page was rendered
C2_Witness ==
    /\ pc = "rendered"
    /\ AllAbsent
    /\ cfg.coinglass_key
    /\ fetched.btc_data = None /\ fetched.global_data = None /\ fetched.fng_data = None


(***************************************************************************)
(* Claims on the flows, sentiment and rotation scorers, checked under Spec *)
(***************************************************************************)
\* the components of the flows score as the contract states them, in quarters
ExactStable(s) ==
    IF s = None THEN 0
    ELSE IF 10 <= Val(s) /\ Val(s) <= 18 THEN 4
    ELSE IF Val(s) < 8 THEN -2
    ELSE 0
ExactNetflow(n, w) ==
    IF n = None THEN 0 ELSE IF Val(n) < 0 THEN w ELSE IF Val(n) > 0 THEN -w ELSE 0
ExactClamp(s) == IF s > 12 THEN 12 ELSE IF s < -12 THEN -12 ELSE s

\* C11: score_flows returns the sum, clamped to [-3, 3], of three
\* components, each applied only when its reading is present: stablecoin
\* dominance in [10, 18] -> +1, < 8 -> -0.5, any other value -> 0 with a
\* neutral note; BTC net flow < 0 -> +0.5, > 0 -> -0.5, = 0 -> 0; ETH net
\* flow < 0 -> +0.25, > 0 -> -0.25, = 0 -> 0.
C11_FlowsSum ==
    Fn("score_flows")
        => LET s == call.args[1]
               neutral == s # None /\ ~(10 <= Val(s) /\ Val(s) <= 18) /\ ~(Val(s) < 8)
           IN  /\ Ret.kind = "return"
               /\ Ret.score = ExactClamp(ExactStable(s) + ExactNetflow(call.args[2], 2)
                                         + ExactNetflow(call.args[3], 1))
               /\ neutral <=> (\E i \in DOMAIN Ret.label :
                                   Ret.label[i] = "Stablecoin share neutral.")

C11_Witness ==
    /\ Fn("score_flows")
    /\ call.args = <<Some(14), Some(-1), Some(-1)>>
    /\ Ret.score = 7

\* C12: score_sentiment maps every present index value in 0..100 to exactly
\* one contrarian bracket: <= 25 -> (2, Extreme Fear (Contrarian Bullish));
\* (25, 50] -> (1, Fear / Neutral); (50, 75] -> (-1, Greed); > 75 ->
\* (-2, Extreme Greed (Risky)); 25 gives score 2 and 26 gives score 1.
C12_SentimentBrackets ==
    Fn("score_sentiment") /\ call.args[1] # None
        => LET v == Val(call.args[1])
           IN  /\ v <= 25 => Returns(8, <<"Extreme Fear (Contrarian Bullish)">>)
               /\ 25 < v /\ v <= 50 => Returns(4, <<"Fear / Neutral">>)
               /\ 50 < v /\ v <= 75 => Returns(-4, <<"Greed">>)
               /\ v > 75 => Returns(-8, <<"Extreme Greed (Risky)">>)
               /\ v = 25 => Ret.score = 8
               /\ v = 26 => Ret.score = 4

C12_Witness ==
    /\ Fn("score_sentiment")
    /\ call.args[1] = Some(25)
    /\ Ret.score = 8

\* C13: score_rotation, for every present dominance, returns base -1 "BTC
\* Dominant" when dominance >= 55, base 0 (the balanced / mixed rotation
\* label) when 45 <= dominance < 55, base +1 "Altseason Zone" when dominance
\* < 45; a supplied 30-day ETH/BTC ratio adds +0.5 if > 0.10, subtracts 0.5
\* if < -0.10 and changes nothing otherwise (also at exactly +0.10 and
\* -0.10); the label depends on dominance only; with dominance absent the
\* ratio is ignored and the result is (0, Unknown).
C13_RotationBrackets ==
    Fn("score_rotation")
        => LET d == call.args[1]
               r == call.args[2]
               adj == IF r = None THEN 0
                      ELSE IF Val(r) > 10 THEN 2 ELSE IF Val(r) < -10 THEN -2 ELSE 0
           IN  IF d = None THEN Returns(0, <<"Unknown">>)
               ELSE /\ Val(d) >= 55
                         => Returns(-4 + adj, <<"BTC Dominant - Altcoins face headwind">>)
                    /\ 45 <= Val(d) /\ Val(d) < 55
                         => Returns(adj, <<"No clear Altseason - mixed rotation">>)
                    /\ Val(d) < 45
                         => Returns(4 + adj, <<"Altseason Zone - higher altcoin beta">>)

C13_Witness ==
    /\ Fn("score_rotation")
    /\ call.args = <<Some(44), Some(11)>>
    /\ Ret.score = 6


(***************************************************************************)
(* Claims on the guards, labels, playbook lines and totals, under Spec     *)
(***************************************************************************)
Absent(i) == call.args[i] = None
AbsentOrZero(i) == call.args[i] = None \/ Val(call.args[i]) = 0

\* C15 as stated: score_cycle returns (0, "Unknown") if and only if price or
\* ATH is absent, and score_leverage returns (0, "Unknown leverage
\* conditions") if and only if OI or market cap is absent; a reading present
\* with the value 0 is scored by the bracket rule (price 0 with a positive
\* ATH gives score 3 before the halving bonus).
C15_UnknownIffAbsent ==
    /\ Fn("score_cycle")
           => /\ Returns(0, <<"Unknown">>) <=> (Absent(1) \/ Absent(2))
              /\ call.args[1] = Some(0) /\ ~AbsentOrZero(2)
                     => Ret.kind = "return" /\ Ret.score \in {12, 14}
    /\ Fn("score_leverage")
           => (Returns(0, <<"Unknown leverage conditions">>) <=> (Absent(1) \/ Absent(2)))

\* C15 amended: score_cycle returns (0, "Unknown") if and only if price or
\* ATH is absent or 0, and score_leverage returns (0, "Unknown leverage
\* conditions") if and only if OI or market cap is absent or 0: a reading
\* present with the value 0 is treated as absent.
C15_UnknownIffAbsentOrZero ==
    /\ Fn("score_cycle")
           => (Returns(0, <<"Unknown">>) <=> (AbsentOrZero(1) \/ AbsentOrZero(2)))
    /\ Fn("score_leverage")
           => (Returns(0, <<"Unknown leverage conditions">>)
                   <=> (AbsentOrZero(1) \/ AbsentOrZero(2)))

C15_Witness ==
    /\ Fn("score_cycle")
    /\ call.args = <<Some(0), Some(100)>>
    /\ Returns(0, <<"Unknown">>)


\* the five brackets of a clamped score, in quarters
ScoreInBracket(i, q) ==
    IF i = 1 THEN q >= 6
    ELSE IF i = 2 THEN 2 <= q /\ q < 6
    ELSE IF i = 3 THEN -2 < q /\ q < 2
    ELSE IF i = 4 THEN -6 <= q /\ q <= -2
    ELSE q < -6

LeverageLabels ==
    <<"Clean / low leverage - safer environment.",
      "Slightly favorable leverage conditions.",
      "Neutral - normal leverage conditions.",
      "Elevated leverage - be cautious with alts.",
      "High leverage risk - avoid aggressive alt exposure.">>
FlowsLabels ==
    <<"Supportive capital flows - environment favors upside.",
      "Mildly supportive flows.",
      "Neutral flows.",
      "Flows slightly against risk assets.",
      "Adverse flows - higher risk of downside.">>
OiNotes == {"Low OI relative to market cap - less crowded leverage.",
            "Moderate OI - normal leverage environment.",
            "High OI - crowded positions, higher liquidation risk."}
FundingNotes == {"High positive funding - many leveraged longs.",
                 "Mild positive funding - bullish positioning but not extreme.",
                 "Negative funding - market leaning short, contrarian bullish."}
LiquidationNotes == {"Recent long liquidations - some excess leveraged longs flushed.",
                     "Recent short liquidations - shorts squeezed, risk of pullback."}
StableNotes == {"Meaningful stablecoin 'dry powder' available.",
                "Lower stablecoin share - less sidelined capital.",
                "Stablecoin share neutral."}
BtcFlowNotes == {"BTC net outflows - accumulation signal.",
                 "BTC net inflows - potential sell pressure."}
EthFlowNotes == {"ETH net outflows - accumulation signal.",
                 "ETH net inflows - potential sell pressure."}
OptNote(S) == {<<>>} \cup {<<n>> : n \in S}

BracketLabel(labels) ==
    /\ Cardinality({i \in 1..5 : ScoreInBracket(i, Ret.score)}) = 1
    /\ \A i \in 1..5 : ScoreInBracket(i, Ret.score) => Ret.label[1] = labels[i]

\* C16: past the absent-reading return, the label returned by score_leverage
\* and by score_flows is the label of exactly one of five exhaustive,
\* non-overlapping brackets of the clamped score (>= 1.5; [0.5, 1.5);
\* (-0.5, 0.5); [-1.5, -0.5]; < -1.5), followed by the notes in evaluation
\* order: for leverage the OI note, always present, then the funding note if
\* any, then the liquidation note if any; for flows the stablecoin note, the
\* BTC flow note, the ETH flow note.
C16_LabelAndNotes ==
    /\ Fn("score_leverage") /\ ~AbsentOrZero(1) /\ ~AbsentOrZero(2)
           => /\ BracketLabel(LeverageLabels)
              /\ Len(Ret.label) >= 2
              /\ Ret.label[2] \in OiNotes
              /\ \E f \in OptNote(FundingNotes), l \in OptNote(LiquidationNotes) :
                     /\ SubSeq(Ret.label, 3, Len(Ret.label)) = f \o l
                     /\ f # <<>> => ~Absent(3) /\ ~Absent(4)
                     /\ l # <<>> => ~Absent(5)
    /\ Fn("score_flows")
           => /\ BracketLabel(FlowsLabels)
              /\ \E s \in OptNote(StableNotes), b \in OptNote(BtcFlowNotes),
                    e \in OptNote(EthFlowNotes) :
                     /\ SubSeq(Ret.label, 2, Len(Ret.label)) = s \o b \o e
                     /\ s # <<>> <=> ~Absent(1)
                     /\ b # <<>> <=> ~AbsentOrZero(2)
                     /\ e # <<>> <=> ~AbsentOrZero(3)

\* a leverage label with the OI, funding and liquidation notes
C16_Witness ==
    /\ Fn("score_leverage")
    /\ Ret.kind = "return"
    /\ Len(Ret.label) = 4
    /\ Ret.label[4] \in LiquidationNotes

\* the dominance detail lines of the playbook
HighLine == <<"BTC dominance is high and/or rising - market is BTC-led.">>
LowLine == <<"BTC dominance is low - altcoins can move faster but are riskier.">>
HasLine(line) == \E i \in DOMAIN Ret.details : Ret.details[i] = line

\* C17: for every present dominance value, the dominance detail line of
\* build_investor_playbook agrees with score_rotation's classification of
\* the same value: the "BTC dominance is high" line exactly when
\* score_rotation's base is -1, the "BTC dominance is low" line exactly when
\* the base is +1, and no dominance line when the base is 0.
C17_DominanceLineAgrees ==
    Fn("build_investor_playbook") /\ ~Absent(11)
        => LET base == score_rotation(call.args[11], None).score
           IN  /\ HasLine(HighLine) <=> base = -4
               /\ HasLine(LowLine) <=> base = 4


\* the least and greatest score of each pillar scorer, in quarters
PillarRange ==
    [score_cycle |-> <<-8, 14>>, score_rotation |-> <<-6, 6>>,
     score_leverage |-> <<-10, 10>>, score_sentiment |-> <<-8, 8>>,
     score_flows |-> <<-5, 7>>]

\* C18: for every combination of readings and every current date, the total
\* computed from the outputs of the five pillar scorers lies in
\* [-1.925, 2.5], and both bounds are attained: the scorers' outputs lie in
\* [-2, 3.5], [-1.5, 1.5], [-2.5, 2.5], [-2, 2] and [-1.25, 1.75], the total
\* of any such outputs lies in [-1.925, 2.5], the greatest outputs give 2.5
\* and the least give -1.925.
C18_TotalRange ==
    /\ pc = "returned" /\ call.fn \in DOMAIN PillarRange /\ Ret.kind = "return"
           => /\ PillarRange[call.fn][1] <= Ret.score
              /\ Ret.score <= PillarRange[call.fn][2]
    /\ Fn("combine_scores")
           => /\ FltLe(Lit(-1925, 1000), Ret.total)
              /\ FltLe(Ret.total, Lit(25, 10))
              /\ call.args = <<14, 6, 10, 8, 7>> => FltEq(Ret.total, Lit(25, 10))
              /\ call.args = <<-8, -6, -10, -8, -5>> => FltEq(Ret.total, Lit(-1925, 1000))

\* total scores from -2.5 to 3 in steps of 0.125
TotalsGrid == {Lit(k, 8) : k \in -20..24}

\* C19: the allocation returned by build_investor_playbook is monotone in
\* the total score: for totals t1 <= t2 the Altcoins percentage at t1 is <=
\* the one at t2 and the Stablecoins percentage at t1 is >= the one at t2.
C19_AllocationMonotone ==
    Fn("build_investor_playbook")
        => \A t \in TotalsGrid :
               LET here == Ret.allocation
                   there == PlaybookPlan(t).alloc
               IN  /\ FltLe(Ret.total_score, t)
                       => /\ here["Altcoins"] <= there["Altcoins"]
                          /\ here["Stablecoins"] >= there["Stablecoins"]
                   /\ FltLe(t, Ret.total_score)
                       => /\ there["Altcoins"] <= here["Altcoins"]
                          /\ there["Stablecoins"] >= here["Stablecoins"]

\* a total in the Mixed bracket, with brackets below and above it
C19_Witness ==
    /\ Fn("build_investor_playbook")
    /\ Ret.allocation = Alloc(60, 20, 5, 15)
    /\ FltLt(Ret.total_score, FltZero)


(***************************************************************************)
(* Claim checked under SpecMalformed                                       *)
(***************************************************************************)
\* a str reading that does not write a number
NonNumeric(o) == IsStr(o) /\ (Val(o) = <<>> \/ \E i \in DOMAIN Val(o) : ~IsDigit(Val(o)[i]))

ScorerPositions == {"score_cycle", "score_sentiment", "score_rotation", "score_leverage",
                    "score_flows"}

\* C14: a malformed (non-numeric) reading fails at the boundary, before any
\* pillar scorer is called: main never stands at a pillar scorer with a
\* malformed reading, and the scorer it is about to call raises nothing.
C14_MalformedRejected ==
    /\ pc \in ScorerPositions => ~NonNumeric(rd.fng_value)
    /\ pc = "score_sentiment" => score_sentiment(rd.fng_value).kind = "return"

====
